---- MODULE Spec2Model ----
(***************************************************************************)
(* Model of src/Final_1.0.py: DataManager (CSV loading and validation),    *)
(* QueryManager (filters and counts), PlotManager (the series behind each  *)
(* chart) and the UserInterface handlers that call them.                   *)
(*                                                                         *)
(* A pandas DataFrame is a record                                          *)
(*   [isNone, columns, dtype, rows]                                        *)
(* columns is the ordered header, dtype maps a column to "number",         *)
(* "object" or "datetime", rows is a sequence of functions column -> cell. *)
(* A cell is [t, n, s] with t in {"num", "str", "date", "null"}; "null"    *)
(* stands for NaN and NaT.                                                 *)
(***************************************************************************)
EXTENDS Integers, Sequences, FiniteSets, TLC

\* tabdb, playdb, requestdb: the three tables of the DataManager.
\* src:   the file each table was last read from.
\* call:  the last call made, [op, args].
\* ret:   what that call gave back, [exc, kind, val].
\* shell: the message box or window the UserInterface showed for it.
VARIABLES tabdb, playdb, requestdb, src, call, ret, shell

vars == <<tabdb, playdb, requestdb, src, call, ret, shell>>

(***************************************************************************)
(* Cells                                                                   *)
(***************************************************************************)
Num(n) == [t |-> "num", n |-> n, s |-> ""]

Str(s) == [t |-> "str", n |-> 0, s |-> s]

Date(d) == [t |-> "date", n |-> d, s |-> ""]

Null == [t |-> "null", n |-> 0, s |-> ""]

Range(f) == {f[i] : i \in DOMAIN f}

\* Text that parses as a number, with its value.
Numerals ==
  [s \in {"1", "2", "3", "4", "5", "1985", "1989", "1994"} |->
     CASE s = "1" -> 1 [] s = "2" -> 2 [] s = "3" -> 3 [] s = "4" -> 4
       [] s = "5" -> 5 [] s = "1985" -> 1985 [] s = "1989" -> 1989
       [] s = "1994" -> 1994]

\* Text that parses as a date, with its value written YYYYMMDD (the
\* encoding keeps the order of dates).
DateTable ==
  [s \in {"2024-01-02", "2024-01-09"} |->
     CASE s = "2024-01-02" -> 20240102 [] s = "2024-01-09" -> 20240109]

\* 1970-01-01: what a small integer read as nanoseconds since the epoch is.
EpochDay == 19700101

(***************************************************************************)
(* DataFrames                                                              *)
(***************************************************************************)
None == [isNone |-> TRUE, columns |-> <<>>, dtype |-> <<>>, rows |-> <<>>]

HasColumn(df, c) == c \in Range(df.columns)

\* Series.count(): the number of non-null cells of a column.
CountNonNull(df, c) == Cardinality({i \in DOMAIN df.rows : df.rows[i][c].t # "null"})

\* The subsequence of s at the positions in keep, in the original order.
RECURSIVE SelectIdx(_, _, _)
SelectIdx(s, keep, i) ==
  IF i > Len(s) THEN <<>>
  ELSE (IF i \in keep THEN <<s[i]>> ELSE <<>>) \o SelectIdx(s, keep, i + 1)

\* df[mask]: a new frame with the rows for which the mask is true.
Mask(df, keep) == [df EXCEPT !.rows = SelectIdx(df.rows, keep, 1)]

(***************************************************************************)
(* The files                                                               *)
(***************************************************************************)
TabHeader ==
  <<"song", "artist", "year", "type", "gender", "duration", "language",
    "tabber", "source", "date", "difficulty", "special books">>

PlayHeader == <<"song", "artist", "2024-01-02", "2024-01-09">>

RequestHeader == <<"song", "artist", "requester">>

\* A file is [kind, header, lines]: kind "missing" (no such path), "empty"
\* (zero bytes) or "csv" (a header line and data lines of raw text fields,
\* "" for a field left blank).
MissingFile == [kind |-> "missing", header |-> <<>>, lines |-> <<>>]

EmptyFile == [kind |-> "empty", header |-> <<>>, lines |-> <<>>]

Csv(h, l) == [kind |-> "csv", header |-> h, lines |-> l]

T1 ==
  Csv(TabHeader,
    << <<"Yesterday", "Beatles", "1985", "pop", "male", "3", "english",
         "ann", "book", "2024-01-02", "1", "no">>,
       <<"Jolene", "Dolly", "1989", "country", "female", "4", "english",
         "bob", "web", "2024-01-09", "2", "no">>,
       <<"Creep", "Radiohead", "1994", "rock", "male", "5", "english",
         "ann", "web", "2024-01-09", "3", "yes">> >>)

\* Blank year, language and date fields, and a date that is not a date.
T2 ==
  Csv(TabHeader,
    << <<"Yesterday", "Beatles", "1985", "pop", "male", "3", "",
         "ann", "book", "soon", "1", "no">>,
       <<"Jolene", "Dolly", "", "country", "female", "4", "english",
         "bob", "web", "", "2", "no">> >>)

\* Five songs; 3 plays recorded on the first date and 5 on the second.
P1 ==
  Csv(PlayHeader,
    << <<"Yesterday", "Beatles", "1", "1">>,
       <<"Jolene", "Dolly", "", "1">>,
       <<"Creep", "Radiohead", "1", "2">>,
       <<"Creep", "Beatles", "", "1">>,
       <<"Yesterday", "Dolly", "2", "1">> >>)

R1 ==
  Csv(RequestHeader,
    << <<"Yesterday", "Beatles", "ann">>,
       <<"Jolene", "Dolly", "">> >>)

\* The file f with the text of one field replaced.
SetField(f, r, k, text) == [f EXCEPT !.lines[r][k] = text]

\* The sequence s without its k-th element (s itself when k = 0).
DropAt(s, k) == SelectIdx(s, (DOMAIN s) \ {k}, 1)

\* The file f without its k-th column (f itself when k = 0).
DropColumn(f, k) ==
  IF f.kind # "csv" THEN f
  ELSE Csv(DropAt(f.header, k), [r \in DOMAIN f.lines |-> DropAt(f.lines[r], k)])

\* A file is named [base, drop]: the base file without column number drop.
Base(b) ==
  CASE b = "missing" -> MissingFile
    [] b = "empty" -> EmptyFile
    [] b = "T1" -> T1
    [] b = "T2" -> T2
    [] b = "T1_badyear" -> SetField(T1, 2, 3, "198x")
    [] b = "T1_baddifficulty" -> SetField(T1, 3, 11, "hard")
    [] b = "P1" -> P1
    [] b = "R1" -> R1

File(id) == DropColumn(Base(id.base), id.drop)

NoFile == [base |-> "none", drop |-> 0]

(***************************************************************************)
(* pandas.read_csv and DataFrame.fillna                                    *)
(***************************************************************************)
ColIndex(h, c) == CHOOSE k \in DOMAIN h : h[k] = c

\* Type inference of read_csv: a column whose fields are all numerals or
\* blank is numeric (blank reads as NaN); any other column holds strings.
\* A file with a header and no data line has only object columns.
InferNumeric(f, k) ==
  /\ f.lines # <<>>
  /\ \A r \in DOMAIN f.lines : f.lines[r][k] \in (DOMAIN Numerals) \cup {""}

ParseField(text, numeric) ==
  IF text = "" THEN Null
  ELSE IF numeric THEN Num(Numerals[text]) ELSE Str(text)

read_csv(f) ==
  [isNone |-> FALSE,
   columns |-> f.header,
   dtype |-> [c \in Range(f.header) |->
                IF InferNumeric(f, ColIndex(f.header, c)) THEN "number" ELSE "object"],
   rows |-> [r \in DOMAIN f.lines |->
               [c \in Range(f.header) |->
                  ParseField(f.lines[r][ColIndex(f.header, c)],
                             InferNumeric(f, ColIndex(f.header, c)))]]]

\* fillna(value, inplace=True) with a string value: every null cell becomes
\* the string; a numeric or datetime column that held a null becomes object.
fillna(df, value) ==
  [df EXCEPT
     !.rows = [r \in DOMAIN df.rows |->
                 [c \in Range(df.columns) |->
                    IF df.rows[r][c].t = "null" THEN Str(value) ELSE df.rows[r][c]]],
     !.dtype = [c \in Range(df.columns) |->
                  IF \E r \in DOMAIN df.rows : df.rows[r][c].t = "null"
                  THEN "object" ELSE df.dtype[c]]]

(***************************************************************************)
(* Exceptions: [type, msg, arg], arg being the value formatted into msg.   *)
(***************************************************************************)
Exc(type, msg, arg) == [type |-> type, msg |-> msg, arg |-> arg]

NoExc == Exc("none", "", "")

NotLoadedError ==
  Exc("ValueError",
      "Data has not been loaded. Please load the data using DataManager first.", "")

KeyError(c) == Exc("KeyError", "", c)

\* The first element of the sequence req that is not a column of df.
FirstMissing(df, req) ==
  req[CHOOSE k \in DOMAIN req :
        /\ ~HasColumn(df, req[k])
        /\ \A j \in 1..(k - 1) : HasColumn(df, req[j])]

AllPresent(df, req) == \A k \in DOMAIN req : HasColumn(df, req[k])

(***************************************************************************)
(* DataManager                                                             *)
(***************************************************************************)
tab_required_columns ==
  <<"song", "artist", "year", "type", "gender", "duration", "language",
    "tabber", "source", "date", "difficulty", "special books">>

play_required_columns == <<"song", "artist">>

request_required_columns == <<"song", "artist">>

\* Each validator works on the table already stored in the DataManager and
\* gives the table as it leaves it and the exception it raises, if any.
_validate_tabdb(df) ==
  IF ~AllPresent(df, tab_required_columns)
  THEN [db |-> df,
        exc |-> Exc("ValueError", "Missing required column in tabdb.csv",
                    FirstMissing(df, tab_required_columns))]
  ELSE IF df.dtype["year"] # "number"
  THEN [db |-> df,
        exc |-> Exc("ValueError", "Column 'year' must be numeric in tabdb.csv.", "year")]
  ELSE IF df.dtype["difficulty"] # "number"
  THEN [db |-> df,
        exc |-> Exc("ValueError", "Column 'difficulty' must be numeric in tabdb.csv.",
                    "difficulty")]
  ELSE [db |-> fillna(df, "Unknown"), exc |-> NoExc]

_validate_playdb(df) ==
  IF ~AllPresent(df, play_required_columns)
  THEN [db |-> df,
        exc |-> Exc("ValueError", "Missing required column in playdb.csv",
                    FirstMissing(df, play_required_columns))]
  ELSE [db |-> fillna(df, ""), exc |-> NoExc]

_validate_requestdb(df) ==
  IF ~AllPresent(df, request_required_columns)
  THEN [db |-> df,
        exc |-> Exc("ValueError", "Missing required column in requestdb.csv",
                    FirstMissing(df, request_required_columns))]
  ELSE [db |-> fillna(df, ""), exc |-> NoExc]

\* self._validate_tabdb(), _validate_playdb() or _validate_requestdb().
Validate(table, df) ==
  CASE table = "tab" -> _validate_tabdb(df)
    [] table = "play" -> _validate_playdb(df)
    [] table = "request" -> _validate_requestdb(df)

\* The step raised.
Failed(o) == o.exc # NoExc

\* self.X = pd.read_csv(path); self._validate_X() for the file f.
\* read_csv raises before the assignment (assigned is FALSE and the table
\* keeps its old value), the validator after it (the table is what read_csv
\* gave).
ReadAndValidate(f, table) ==
  IF f.kind = "missing"
  THEN [assigned |-> FALSE, db |-> None,
        exc |-> Exc("FileNotFoundError", "No such file or directory", "")]
  ELSE IF f.kind = "empty"
  THEN [assigned |-> FALSE, db |-> None,
        exc |-> Exc("EmptyDataError", "No columns to parse from file", "")]
  ELSE LET v == Validate(table, read_csv(f))
       IN [assigned |-> TRUE, db |-> v.db, exc |-> v.exc]

\* The line load_data prints for the exception it caught.
ErrorLine(e) ==
  IF e.type = "FileNotFoundError" THEN [text |-> "Error: ", e |-> e]
  ELSE IF e.type = "EmptyDataError"
  THEN [text |-> "Error: One or more files are empty.", e |-> NoExc]
  ELSE [text |-> "An unexpected error occurred: ", e |-> e]

Line(text) == [text |-> text, e |-> NoExc]

\* load_data with one try block per source: a source is read whatever
\* happened to the sources before it.
load_data_PerSource(t0, p0, r0, s0, ft, fp, fr, a, b, c) ==
  [tab |-> IF a.assigned THEN a.db ELSE t0,
   play |-> IF b.assigned THEN b.db ELSE p0,
   request |-> IF c.assigned THEN c.db ELSE r0,
   src |-> [tab |-> IF a.assigned THEN ft ELSE s0.tab,
            play |-> IF b.assigned THEN fp ELSE s0.play,
            request |-> IF c.assigned THEN fr ELSE s0.request],
   printed |->
     <<IF Failed(a) THEN ErrorLine(a.exc) ELSE Line("tabdb.csv loaded successfully."),
       IF Failed(b) THEN ErrorLine(b.exc) ELSE Line("playdb.csv loaded successfully."),
       IF Failed(c) THEN ErrorLine(c.exc)
       ELSE Line("requestdb.csv loaded successfully.")>>]

\* DataManager.load_data on the tables (t0, p0, r0), read from the files s0,
\* when the three paths hold the outcomes a, b, c of ReadAndValidate: the
\* tables and the printed lines when it returns.  One try block encloses
\* the three sources; every exception is caught and printed, so the call
\* always returns normally.
load_data(t0, p0, r0, s0, ft, fp, fr, a, b, c) ==
  LET t1 == IF a.assigned THEN a.db ELSE t0
      p1 == IF b.assigned THEN b.db ELSE p0
      r1 == IF c.assigned THEN c.db ELSE r0
      st == IF a.assigned THEN ft ELSE s0.tab
      sp == IF b.assigned THEN fp ELSE s0.play
      sr == IF c.assigned THEN fr ELSE s0.request
  IN
  IF a.exc # NoExc
  THEN [tab |-> t1, play |-> p0, request |-> r0,
        src |-> [s0 EXCEPT !.tab = st],
        printed |-> <<ErrorLine(a.exc)>>]
  ELSE IF b.exc # NoExc
  THEN [tab |-> t1, play |-> p1, request |-> r0,
        src |-> [s0 EXCEPT !.tab = st, !.play = sp],
        printed |-> <<Line("tabdb.csv loaded successfully."), ErrorLine(b.exc)>>]
  ELSE IF c.exc # NoExc
  THEN [tab |-> t1, play |-> p1, request |-> r1,
        src |-> [tab |-> st, play |-> sp, request |-> sr],
        printed |-> <<Line("tabdb.csv loaded successfully."),
                      Line("playdb.csv loaded successfully."), ErrorLine(c.exc)>>]
  ELSE [tab |-> t1, play |-> p1, request |-> r1,
        src |-> [tab |-> st, play |-> sp, request |-> sr],
        printed |-> <<Line("tabdb.csv loaded successfully."),
                      Line("playdb.csv loaded successfully."),
                      Line("requestdb.csv loaded successfully.")>>]

(***************************************************************************)
(* What a call gives back: the exception it raises, or a value of the      *)
(* named kind.                                                             *)
(***************************************************************************)
Raise(e) == [exc |-> e, kind |-> "none", val |-> <<>>]

Return(kind, val) == [exc |-> NoExc, kind |-> kind, val |-> val]

(***************************************************************************)
(* QueryManager                                                            *)
(***************************************************************************)
\* One element of (series == value).  NaN and NaT equal nothing; a datetime
\* column parses a string operand as a date, and equals no string that is
\* not a date; otherwise values are compared as they are, so a number never
\* equals a string.
CellEq(dtype, cell, value) ==
  IF cell.t = "null" THEN FALSE
  ELSE IF dtype = "datetime" /\ value.t = "str"
  THEN value.s \in DOMAIN DateTable /\ cell = Date(DateTable[value.s])
  ELSE cell = value

\* FilterLoop with a slip: a criterion on a column the table lacks is
\* skipped and the rows filtered so far are returned.
RECURSIVE FilterLoop_SkipUnknown(_, _, _)
FilterLoop_SkipUnknown(df, filters, i) ==
  IF i > Len(filters) THEN Return("df", df)
  ELSE IF HasColumn(df, filters[i].column)
  THEN FilterLoop_SkipUnknown(
         Mask(df, {r \in DOMAIN df.rows :
                     CellEq(df.dtype[filters[i].column],
                            df.rows[r][filters[i].column], filters[i].value)}),
         filters, i + 1)
  ELSE FilterLoop_SkipUnknown(df, filters, i + 1)

\* The loop of filter_tabdb from the i-th criterion on; df is the local
\* variable, narrowed by each criterion in turn.
RECURSIVE FilterLoop(_, _, _)
FilterLoop(df, filters, i) ==
  IF i > Len(filters) THEN Return("df", df)
  ELSE IF HasColumn(df, filters[i].column)
  THEN FilterLoop(
         Mask(df, {r \in DOMAIN df.rows :
                     CellEq(df.dtype[filters[i].column],
                            df.rows[r][filters[i].column], filters[i].value)}),
         filters, i + 1)
  ELSE Raise(Exc("ValueError", "Column does not exist in tabdb.", filters[i].column))

\* filters: the keyword arguments in call order, a sequence of
\* [column, value] with distinct columns.
filter_tabdb(filters) ==
  IF tabdb.isNone THEN Raise(NotLoadedError) ELSE FilterLoop(tabdb, filters, 1)

\* pd.to_datetime(errors='coerce') on one cell.
ToDatetimeCell(cell) ==
  CASE cell.t = "str" ->
         IF cell.s \in DOMAIN DateTable THEN Date(DateTable[cell.s]) ELSE Null
    [] cell.t = "num" -> Date(EpochDay)
    [] OTHER -> cell

\* df[c] = cells for an existing column c, the column taking dtype dt.
AssignColumn(df, c, dt, cells) ==
  [df EXCEPT
     !.rows = [r \in DOMAIN df.rows |-> [df.rows[r] EXCEPT ![c] = cells[r]]],
     !.dtype = [df.dtype EXCEPT ![c] = dt]]

\* Gives [tab, ret]: the stored tab table after the call, and the outcome.
\* The date column is converted in the stored table, before the range is
\* compared.
filter_by_date_range(start_date, end_date) ==
  IF tabdb.isNone THEN [tab |-> tabdb, ret |-> Raise(NotLoadedError)]
  ELSE IF ~HasColumn(tabdb, "date") THEN [tab |-> tabdb, ret |-> Raise(KeyError("date"))]
  ELSE LET df == AssignColumn(tabdb, "date", "datetime",
                    [r \in DOMAIN tabdb.rows |-> ToDatetimeCell(tabdb.rows[r]["date"])]) IN
       IF start_date \notin DOMAIN DateTable \/ end_date \notin DOMAIN DateTable
       THEN [tab |-> df,
             ret |-> Raise(Exc("TypeError", "Invalid comparison between datetime64 and str", ""))]
       ELSE [tab |-> df,
             ret |-> Return("df",
                       Mask(df, {r \in DOMAIN df.rows :
                                   /\ df.rows[r]["date"].t = "date"
                                   /\ df.rows[r]["date"].n >= DateTable[start_date]
                                   /\ df.rows[r]["date"].n <= DateTable[end_date]}))]

filter_playdb_by_song(song_title) ==
  IF playdb.isNone THEN Raise(NotLoadedError)
  ELSE IF ~HasColumn(playdb, "song") THEN Raise(KeyError("song"))
  ELSE Return("df",
         Mask(playdb, {r \in DOMAIN playdb.rows :
                         CellEq(playdb.dtype["song"], playdb.rows[r]["song"],
                                Str(song_title))}))

filter_requestdb_by_artist(artist_name) ==
  IF requestdb.isNone THEN Raise(NotLoadedError)
  ELSE IF ~HasColumn(requestdb, "artist") THEN Raise(KeyError("artist"))
  ELSE Return("df",
         Mask(requestdb, {r \in DOMAIN requestdb.rows :
                            CellEq(requestdb.dtype["artist"],
                                   requestdb.rows[r]["artist"], Str(artist_name))}))

\* df[song_title].count(): song_title is used as a column name.
count_song_plays(song_title) ==
  IF playdb.isNone THEN Raise(NotLoadedError)
  ELSE IF ~HasColumn(playdb, song_title) THEN Raise(KeyError(song_title))
  ELSE Return("count", CountNonNull(playdb, song_title))

(***************************************************************************)
(* PlotManager: each operation gives the data handed to the plot call.     *)
(***************************************************************************)
RECURSIVE SortAsc(_)
SortAsc(S) ==
  IF S = {} THEN <<>>
  ELSE LET m == CHOOSE x \in S : \A y \in S : x <= y
       IN <<m>> \o SortAsc(S \ {m})

RECURSIVE SumTo(_, _)
SumTo(s, k) == IF k = 0 THEN 0 ELSE s[k] + SumTo(s, k - 1)

\* Series.cumsum()
cumsum(s) == [k \in DOMAIN s |-> SumTo(s, k)]

\* The non-null cells of a column, in row order.
NonNullCells(df, c) ==
  LET keep == {r \in DOMAIN df.rows : df.rows[r][c].t # "null"}
  IN [i \in DOMAIN SelectIdx(df.rows, keep, 1) |-> SelectIdx(df.rows, keep, 1)[i][c]]

\* Series.value_counts(): distinct non-null value -> number of occurrences.
value_counts(df, c) ==
  [v \in {df.rows[r][c] : r \in {q \in DOMAIN df.rows : df.rows[q][c].t # "null"}} |->
     Cardinality({r \in DOMAIN df.rows : df.rows[r][c] = v})]

\* df[c].plot(kind='hist', bins=bins): only a numeric column can be plotted.
Histogram(df, c, bins) ==
  IF df.isNone THEN Raise(NotLoadedError)
  ELSE IF ~HasColumn(df, c) THEN Raise(KeyError(c))
  ELSE IF df.dtype[c] # "number" THEN Raise(Exc("TypeError", "no numeric data to plot", ""))
  ELSE Return("hist", [bins |-> bins, data |-> NonNullCells(df, c)])

\* df[c].value_counts().plot(kind=kind)
CountsChart(df, c, kind) ==
  IF df.isNone THEN Raise(NotLoadedError)
  ELSE IF ~HasColumn(df, c) THEN Raise(KeyError(c))
  ELSE Return(kind, value_counts(df, c))

plot_difficulty_histogram == Histogram(tabdb, "difficulty", 5)

plot_duration_histogram == Histogram(tabdb, "duration", 10)

plot_language_bar_chart == CountsChart(tabdb, "language", "bar")

plot_source_bar_chart == CountsChart(tabdb, "source", "bar")

plot_pie_chart_by_gender == CountsChart(tabdb, "gender", "pie")

\* pd.to_numeric(errors='coerce') on one cell.
ToNumericCell(cell) ==
  CASE cell.t = "str" ->
         IF cell.s \in DOMAIN Numerals THEN Num(Numerals[cell.s]) ELSE Null
    [] OTHER -> cell

\* (year // 10) * 10
DecadeCell(y) == IF y.t = "num" THEN Num((y.n \div 10) * 10) ELSE Null

\* df['decade'] = ...: the column is appended unless the table has it.
WithDecade(df) ==
  LET cols == IF HasColumn(df, "decade") THEN df.columns ELSE Append(df.columns, "decade")
  IN [isNone |-> FALSE,
      columns |-> cols,
      dtype |-> [c \in Range(cols) |-> IF c = "decade" THEN "number" ELSE df.dtype[c]],
      rows |-> [r \in DOMAIN df.rows |->
                  [c \in Range(cols) |->
                     IF c = "decade" THEN DecadeCell(df.rows[r]["year"])
                     ELSE df.rows[r][c]]]]

\* Gives [tab, ret].  The year column is converted and the decade column
\* written in the stored table; the chart is value_counts().sort_index().
plot_bar_chart_by_decade ==
  IF tabdb.isNone THEN [tab |-> tabdb, ret |-> Raise(NotLoadedError)]
  ELSE IF ~HasColumn(tabdb, "year") THEN [tab |-> tabdb, ret |-> Raise(KeyError("year"))]
  ELSE LET df == WithDecade(AssignColumn(tabdb, "year", "number",
                   [r \in DOMAIN tabdb.rows |-> ToNumericCell(tabdb.rows[r]["year"])]))
           vc == value_counts(df, "decade")
           idx == SortAsc({v.n : v \in DOMAIN vc})
       IN [tab |-> df,
           ret |-> Return("bar",
                     [k \in DOMAIN idx |-> [index |-> idx[k], count |-> vc[Num(idx[k])]]])]

\* plot_cumulative_line_chart with a slip: no test for an unset table, an
\* unset table charting as an empty series.
plot_cumulative_line_chart_Unchecked ==
  IF playdb.isNone THEN Return("line", <<>>)
  ELSE IF ~AllPresent(playdb, <<"song", "artist">>)
  THEN Raise(KeyError(FirstMissing(playdb, <<"song", "artist">>)))
  ELSE LET rest == SelectIdx(playdb.columns,
                     {k \in DOMAIN playdb.columns :
                        playdb.columns[k] \notin {"song", "artist"}}, 1)
       IN Return("line", cumsum([k \in DOMAIN rest |-> CountNonNull(playdb, rest[k])]))

\* df.drop(columns=['song', 'artist']).count(axis=0).cumsum()
plot_cumulative_line_chart ==
  IF playdb.isNone THEN Raise(NotLoadedError)
  ELSE IF ~AllPresent(playdb, <<"song", "artist">>)
  THEN Raise(KeyError(FirstMissing(playdb, <<"song", "artist">>)))
  ELSE LET rest == SelectIdx(playdb.columns,
                     {k \in DOMAIN playdb.columns :
                        playdb.columns[k] \notin {"song", "artist"}}, 1)
       IN Return("line", cumsum([k \in DOMAIN rest |-> CountNonNull(playdb, rest[k])]))

(***************************************************************************)
(* Inputs                                                                  *)
(***************************************************************************)
\* The longest list of criteria given to filter_tabdb.
MaxCriteria == 2

Src(b, k) == [base |-> b, drop |-> k]

\* What the three paths may hold when load_data runs: a missing file, an
\* empty file, valid files, files with a non-numeric year or difficulty, and
\* files lacking one required column.
\* Which required column a file in the catalogue may lack: song, year,
\* date and special books.
DroppedTabColumns == {1, 3, 10, 12}

TabSources ==
  {Src(b, 0) : b \in {"missing", "empty", "T1", "T2", "T1_badyear", "T1_baddifficulty"}}
    \cup {Src("T1", k) : k \in DroppedTabColumns}

PlaySources == {Src("missing", 0), Src("P1", 0), Src("P1", 2)}

RequestSources == {Src("empty", 0), Src("R1", 0), Src("R1", 1)}

\* What reading and validating each file gives, computed once.
TabOutcome == [id \in TabSources |-> ReadAndValidate(File(id), "tab")]

PlayOutcome == [id \in PlaySources |-> ReadAndValidate(File(id), "play")]

RequestOutcome == [id \in RequestSources |-> ReadAndValidate(File(id), "request")]

Criterion(c, v) == [column |-> c, value |-> v]

Criteria ==
  {Criterion("year", Num(1985)), Criterion("artist", Str("Beatles")),
   Criterion("genre", Str("pop")), Criterion("key", Str("C"))}

\* Keyword arguments: at most MaxCriteria criteria, no column twice.
FilterArgs ==
  {f \in UNION {[1..n -> Criteria] : n \in 0..MaxCriteria} :
     \A i, j \in DOMAIN f : i # j => f[i].column # f[j].column}

\* Text typed into the dialogs; "" is a dialog left blank or cancelled.
ColumnInputs == {"year", "genre", ""}

ValueInputs == {"1985", "Beatles", ""}

DateInputs == {"2024-01-09", "tuesday"}

SongInputs == {"Yesterday", "2024-01-02"}

ArtistInputs == {"Beatles", "Nobody"}

plot_options ==
  <<"Difficulty Histogram", "Duration Histogram", "Language Bar Chart",
    "Source Bar Chart", "Decade Bar Chart", "Cumulative Line Chart",
    "Gender Pie Chart">>

PlotInputs == Range(plot_options) \cup {"Scatter"}

(***************************************************************************)
(* The message box or window the shell shows                               *)
(***************************************************************************)
NoShell == [level |-> "none", text |-> "", e |-> NoExc]

ShowInfo(text) == [level |-> "info", text |-> text, e |-> NoExc]

ShowWarning(text) == [level |-> "warning", text |-> text, e |-> NoExc]

\* messagebox.showerror("Error", str(e))
ShowError(e) == [level |-> "error", text |-> "", e |-> e]

Window(title) == [level |-> "window", text |-> title, e |-> NoExc]

\* display_dataframe(df)
display_dataframe(df) ==
  IF ~df.isNone /\ df.rows # <<>> THEN Window("Filtered Data")
  ELSE ShowInfo("No data available for the selected filter.")

(***************************************************************************)
(* Init: the objects as constructed at the bottom of the file              *)
(***************************************************************************)
Init ==
  /\ tabdb = None
  /\ playdb = None
  /\ requestdb = None
  /\ src = [tab |-> NoFile, play |-> NoFile, request |-> NoFile]
  /\ call = [op |-> "__init__", args |-> <<>>]
  /\ ret = Return("none", <<>>)
  /\ shell = NoShell

(***************************************************************************)
(* Actions                                                                 *)
(***************************************************************************)
\* UserInterface.load_data: the Load Data button.
UserInterface_load_data ==
  \E ft \in TabSources, fp \in PlaySources, fr \in RequestSources :
    LET r == load_data(tabdb, playdb, requestdb, src, ft, fp, fr,
                       TabOutcome[ft], PlayOutcome[fp], RequestOutcome[fr])
        out == Return("printed", r.printed)
    IN /\ tabdb' = r.tab
       /\ playdb' = r.play
       /\ requestdb' = r.request
       /\ src' = r.src
       /\ call' = [op |-> "load_data", args |-> [tab |-> ft, play |-> fp, request |-> fr]]
       /\ ret' = out
       /\ shell' = IF out.exc = NoExc THEN ShowInfo("Data loaded successfully.")
                   ELSE ShowError(out.exc)

\* A call that stores nothing: only its outcome is observed.
ReadOnlyCall(op, a, out, sh) ==
  /\ call' = [op |-> op, args |-> a]
  /\ ret' = out
  /\ shell' = sh
  /\ UNCHANGED <<tabdb, playdb, requestdb, src>>

\* A call that may store a new tab table.
TabCall(op, a, r, sh) ==
  /\ tabdb' = r.tab
  /\ call' = [op |-> op, args |-> a]
  /\ ret' = r.ret
  /\ shell' = sh
  /\ UNCHANGED <<playdb, requestdb, src>>

QueryManager_filter_tabdb ==
  \E f \in FilterArgs : ReadOnlyCall("filter_tabdb", f, filter_tabdb(f), NoShell)

QueryManager_filter_by_date_range ==
  \E s \in DateInputs, e \in DateInputs :
    TabCall("filter_by_date_range", <<s, e>>, filter_by_date_range(s, e), NoShell)

QueryManager_filter_playdb_by_song ==
  \E t \in SongInputs :
    ReadOnlyCall("filter_playdb_by_song", <<t>>, filter_playdb_by_song(t), NoShell)

QueryManager_filter_requestdb_by_artist ==
  \E n \in ArtistInputs :
    ReadOnlyCall("filter_requestdb_by_artist", <<n>>, filter_requestdb_by_artist(n), NoShell)

QueryManager_count_song_plays ==
  \E t \in SongInputs :
    ReadOnlyCall("count_song_plays", <<t>>, count_song_plays(t), NoShell)

\* The PlotManager method that plot_data calls for a selection, as [tab, ret].
Plot(selected_plot) ==
  CASE selected_plot = "Difficulty Histogram" ->
         [tab |-> tabdb, ret |-> plot_difficulty_histogram]
    [] selected_plot = "Duration Histogram" ->
         [tab |-> tabdb, ret |-> plot_duration_histogram]
    [] selected_plot = "Language Bar Chart" ->
         [tab |-> tabdb, ret |-> plot_language_bar_chart]
    [] selected_plot = "Source Bar Chart" ->
         [tab |-> tabdb, ret |-> plot_source_bar_chart]
    [] selected_plot = "Decade Bar Chart" -> plot_bar_chart_by_decade
    [] selected_plot = "Cumulative Line Chart" ->
         [tab |-> tabdb, ret |-> plot_cumulative_line_chart]
    [] selected_plot = "Gender Pie Chart" ->
         [tab |-> tabdb, ret |-> plot_pie_chart_by_gender]

\* The name of that method.
PlotOp(selected_plot) ==
  CASE selected_plot = "Difficulty Histogram" -> "plot_difficulty_histogram"
    [] selected_plot = "Duration Histogram" -> "plot_duration_histogram"
    [] selected_plot = "Language Bar Chart" -> "plot_language_bar_chart"
    [] selected_plot = "Source Bar Chart" -> "plot_source_bar_chart"
    [] selected_plot = "Decade Bar Chart" -> "plot_bar_chart_by_decade"
    [] selected_plot = "Cumulative Line Chart" -> "plot_cumulative_line_chart"
    [] selected_plot = "Gender Pie Chart" -> "plot_pie_chart_by_gender"

\* A PlotManager method called directly.
PlotManager_plot ==
  \E p \in Range(plot_options) : TabCall(PlotOp(p), <<>>, Plot(p), NoShell)

\* UserInterface.filter_data: the Filter Data button.  A blank column or
\* value does nothing; the value reaches filter_tabdb as the typed string.
UserInterface_filter_data ==
  \E column \in ColumnInputs, value \in ValueInputs :
    IF column # "" /\ value # ""
    THEN LET out == filter_tabdb(<<Criterion(column, Str(value))>>)
         IN ReadOnlyCall("filter_data", <<column, value>>, out,
              IF out.exc = NoExc THEN display_dataframe(out.val) ELSE ShowError(out.exc))
    ELSE ReadOnlyCall("filter_data", <<column, value>>, Return("none", <<>>), NoShell)

\* UserInterface.plot_data: the Plot Data button.
UserInterface_plot_data ==
  \E selected_plot \in PlotInputs :
    IF selected_plot \in Range(plot_options)
    THEN TabCall("plot_data", <<selected_plot>>, Plot(selected_plot),
           IF Plot(selected_plot).ret.exc = NoExc THEN NoShell
           ELSE ShowError(Plot(selected_plot).ret.exc))
    ELSE ReadOnlyCall("plot_data", <<selected_plot>>, Return("none", <<>>),
           ShowWarning("Invalid plot type selected."))

Next ==
  \/ UserInterface_load_data
  \/ UserInterface_filter_data
  \/ UserInterface_plot_data
  \/ QueryManager_filter_tabdb
  \/ QueryManager_filter_by_date_range
  \/ QueryManager_filter_playdb_by_song
  \/ QueryManager_filter_requestdb_by_artist
  \/ QueryManager_count_song_plays
  \/ PlotManager_plot

Spec == Init /\ [][Next]_vars

(***************************************************************************)
(* Properties                                                              *)
(***************************************************************************)
IsLoad == call.op = "load_data"

\* The outcome of reading each of the three files given to the last load.
TabGiven == TabOutcome[call.args.tab]

PlayGiven == PlayOutcome[call.args.play]

RequestGiven == RequestOutcome[call.args.request]

\* C1: within one load call the sources are handled independently; if the
\* tab source fails while the play and request sources are valid, the play
\* table and the request table are both loaded after the call.
C1_SourcesIndependent ==
  (IsLoad /\ Failed(TabGiven) /\ ~Failed(PlayGiven) /\ ~Failed(RequestGiven))
    => (~playdb.isNone /\ ~requestdb.isNone)

\* C2: a source that fails its validator during a load has no table
\* installed: after the call that source's table is unset.
C2_RejectedSourceUnset ==
  IsLoad =>
    /\ (TabGiven.assigned /\ Failed(TabGiven)) => tabdb.isNone
    /\ (~Failed(TabGiven) /\ PlayGiven.assigned /\ Failed(PlayGiven)) => playdb.isNone
    /\ (~Failed(TabGiven) /\ ~Failed(PlayGiven)
          /\ RequestGiven.assigned /\ Failed(RequestGiven)) => requestdb.isNone

\* C3: when loading any source fails, load returns an error outcome to its
\* caller, and the shell never shows a successful load for that call.
C3_LoadFailureReported ==
  (IsLoad /\ (Failed(TabGiven) \/ Failed(PlayGiven) \/ Failed(RequestGiven)))
    => (ret.exc # NoExc /\ shell.level = "error")

QueryOps ==
  {"filter_tabdb", "filter_by_date_range", "filter_playdb_by_song",
   "filter_requestdb_by_artist", "count_song_plays"}

PlotOps == {PlotOp(p) : p \in Range(plot_options)}

AllLoaded == ~tabdb.isNone /\ ~playdb.isNone /\ ~requestdb.isNone

\* C4: every query and chart operation is a pure read: executed with loaded
\* tables, it leaves the tab, play and request tables unchanged (same
\* columns, cell values and types).
C4_QueriesArePureReads ==
  [][(AllLoaded /\ call'.op \in QueryOps \cup PlotOps)
       => (tabdb' = tabdb /\ playdb' = playdb /\ requestdb' = requestdb)]_vars

NoNullCell(df) ==
  \A r \in DOMAIN df.rows : \A c \in Range(df.columns) : df.rows[r][c].t # "null"

\* C5: a valid tab source loads, and from then until the next load, through
\* any query and chart operations, no row of the tab table has a null cell.
C5_TabNeverNull ==
  /\ (IsLoad /\ ~Failed(TabGiven)) => (~tabdb.isNone /\ src.tab = call.args.tab)
  /\ (~tabdb.isNone /\ ~Failed(TabOutcome[src.tab])) => NoNullCell(tabdb)

\* The call raised e and gave no value.
Raised(r, e) == r.exc = e /\ r.kind = "none"

\* The call gave the value v of the named kind.
Returned(r, kind, v) == r.exc = NoExc /\ r.kind = kind /\ r.val = v

\* The table an operation touches.
Touches(c) ==
  IF c.op \in {"filter_tabdb", "filter_by_date_range", "plot_difficulty_histogram",
               "plot_duration_histogram", "plot_language_bar_chart",
               "plot_source_bar_chart", "plot_bar_chart_by_decade",
               "plot_pie_chart_by_gender"}
  THEN "tab"
  ELSE IF c.op \in {"filter_playdb_by_song", "count_song_plays",
                    "plot_cumulative_line_chart"}
  THEN "play"
  ELSE IF c.op = "filter_requestdb_by_artist" THEN "request"
  ELSE "none"

\* C6: while a table is unset, every QueryManager and PlotManager operation
\* that touches it fails with the not-loaded error and gives no result.
C6_UnsetTableNotLoaded ==
  /\ (Touches(call) = "tab" /\ tabdb.isNone) => Raised(ret, NotLoadedError)
  /\ (Touches(call) = "play" /\ playdb.isNone) => Raised(ret, NotLoadedError)
  /\ (Touches(call) = "request" /\ requestdb.isNone) => Raised(ret, NotLoadedError)

\* A chart of the play table is asked for while the tab table is loaded and
\* the play table is not.
C6_Witness ==
  /\ call.op = "plot_cumulative_line_chart"
  /\ ~tabdb.isNone
  /\ playdb.isNone
  /\ Raised(ret, NotLoadedError)

Absent(df, f) == {i \in DOMAIN f : ~HasColumn(df, f[i].column)}

FirstAbsent(df, f) == CHOOSE i \in Absent(df, f) : \A j \in Absent(df, f) : i <= j

\* C7: filter_tabdb with a criterion on a column that the tab table lacks
\* fails with the unknown-column error naming the (first such) column,
\* wherever that criterion stands; it returns no rows and leaves the tab
\* table unchanged.
C7_UnknownColumnFails ==
  [][(call'.op = "filter_tabdb" /\ ~tabdb.isNone /\ Absent(tabdb, call'.args) # {})
       => /\ Raised(ret', Exc("ValueError", "Column does not exist in tabdb.",
                               call'.args[FirstAbsent(tabdb, call'.args)].column))
          /\ tabdb' = tabdb]_vars

\* The absent column stands second, after a criterion that matched a column.
C7_Witness ==
  /\ call.op = "filter_tabdb"
  /\ ~tabdb.isNone
  /\ Len(call.args) = 2
  /\ HasColumn(tabdb, call.args[1].column)
  /\ ~HasColumn(tabdb, call.args[2].column)
  /\ ret.exc.arg = call.args[2].column

\* The cumulative series of the cells recorded in a play file: per column
\* other than song and artist, in file order, the running total of the
\* fields that are not blank.
SourceCumulative(f) ==
  LET rest == SelectIdx([k \in DOMAIN f.header |-> k],
                {k \in DOMAIN f.header : f.header[k] \notin {"song", "artist"}}, 1)
  IN cumsum([i \in DOMAIN rest |->
               Cardinality({r \in DOMAIN f.lines : f.lines[r][rest[i]] # ""})])

\* C8: for a play table loaded through load, the cumulative play series
\* has one entry per column other than song and artist, entry k being the
\* number of cells recorded in the source in the first k such columns.
C8_CumulativeCountsRecorded ==
  (call.op = "plot_cumulative_line_chart" /\ ~playdb.isNone
     /\ ~Failed(PlayOutcome[src.play]))
    => Returned(ret, "line", SourceCumulative(File(src.play)))

\* C9: a number typed as the value for the numeric year column is compared
\* as a number: the filter returns exactly the rows with that year, in
\* table order.
C9_NumericColumnCoerced ==
  (call.op = "filter_data" /\ call.args[1] = "year" /\ call.args[2] \in DOMAIN Numerals
     /\ ~tabdb.isNone /\ HasColumn(tabdb, "year") /\ tabdb.dtype["year"] = "number")
    => Returned(ret, "df",
                Mask(tabdb, {r \in DOMAIN tabdb.rows :
                               tabdb.rows[r]["year"] = Num(Numerals[call.args[2]])}))

\* C10: a table that has been set is never unset again, and the tables are
\* set in order: request only if play is set, play only if tab is set.
C10_SetInOrderNeverUnset ==
  [][/\ ~tabdb.isNone => ~tabdb'.isNone
     /\ ~playdb.isNone => ~playdb'.isNone
     /\ ~requestdb.isNone => ~requestdb'.isNone
     /\ ~requestdb'.isNone => ~playdb'.isNone
     /\ ~playdb'.isNone => ~tabdb'.isNone]_vars

\* A load fails at its first source and the tables of an earlier load stay:
\* tab and play set, request never set.
C10_Witness ==
  /\ IsLoad
  /\ ~TabGiven.assigned
  /\ ~tabdb.isNone
  /\ ~playdb.isNone
  /\ requestdb.isNone

====
